---------------------------- MODULE Spec2Model ----------------------------
(***************************************************************************)
(* The completion life cycle of one view of LSP-copilot.                   *)
(*                                                                         *)
(* src/plugin.py               CopilotPlugin: request_get_completions,     *)
(*                             _on_get_completions, the signed-in flag,    *)
(*                             the panel notification handlers             *)
(* src/plugin/ui/completion.py ViewCompletionManager: the view settings    *)
(*                             is_visible, completions, completion_index,  *)
(*                             show, hide, reset, previous / next          *)
(* src/utils.py                clamp, first, remove_prefix,                *)
(*                             prepare_completion_request                  *)
(*                                                                         *)
(* All handlers run to completion on one thread, so every handler is one   *)
(* action.  The sessions of two views share nothing but the class          *)
(* attribute _has_signed_in, so the model holds the completion settings of *)
(* one view; the panel settings are held for every view.                   *)
(*                                                                         *)
(* Spec         the controller: sign-in, session, selections, syntax and   *)
(*              text of the view, the requests and their responses         *)
(* SpecOverlay  a view that meets the preconditions of a request: requests *)
(*              and responses together with the commands of the popup      *)
(* SpecSession  ViewCompletionManager alone, under every call of show()    *)
(* SpecBrowse   a resting cursor: requests, responses, edits of the buffer *)
(*              and the walk through the completions stored                *)
(* SpecLive     requests and responses with every response arriving        *)
(* SpecPanel    the notifications of the panel completions, for three      *)
(*              views in two windows                                       *)
(*                                                                         *)
(* An optional Python value (None or a value) is a sequence of length 0 or *)
(* 1.  A cursor is an empty region at a point p; Region.to_tuple() of it   *)
(* is the pair <<p, p>>.                                                   *)
(***************************************************************************)
EXTENDS Integers, Sequences, FiniteSets

VARIABLES
    has_signed_in,           \* CopilotPlugin._has_signed_in
    session_alive,           \* self.weaksession() is not None
    sel,                     \* view.sel(): the cursors of the view, in order
    syntax,                  \* view.syntax() is not None
    auto_complete_cycle,     \* the view setting "auto_complete_cycle"
    line_text,               \* view.substr(view.line(completion["point"]))
    is_visible,              \* view setting copilot.completion.is_visible
    is_waiting_completions,  \* view setting ...is_waiting_completions (plugin.py)
    is_waiting_completion,   \* view setting ...is_waiting_completion (is_waiting)
    completions,             \* view setting ...completions
    completion_index,        \* view setting ...completion_index
    popup,                   \* what mdpopups has on screen for the view
    inflight,                \* snapshot -> number of requests awaiting a response
    acted,                   \* a response was stored since the cursor last changed
    active_window,           \* sublime.active_window()
    panel_completions,       \* view -> view setting copilot.completion.panel_completions
    is_waiting_panel_completions,  \* view -> view setting ...is_waiting_panel_completions
    panel_arrived,           \* view -> the panel solutions the server sent for it
    panel_done,              \* view -> the server sent the done notification for it
    panel_renders,           \* view -> number of calls of show_panel_completions()
    last                     \* what the handler that ran last did

vars == <<has_signed_in, session_alive, sel, syntax, auto_complete_cycle,
          line_text, is_visible, is_waiting_completions, is_waiting_completion,
          completions, completion_index, popup, inflight, acted,
          active_window, panel_completions, is_waiting_panel_completions,
          panel_arrived, panel_done, panel_renders, last>>

env == <<has_signed_in, session_alive, sel, syntax, auto_complete_cycle, line_text>>

panel == <<active_window, panel_completions, is_waiting_panel_completions,
           panel_arrived, panel_done, panel_renders>>

-----------------------------------------------------------------------------
(* Bounds of the model *)

MaxPos == 1        \* cursor points are 0..MaxPos
MaxLen == 2        \* a completions list holds at most MaxLen entries
MaxInflight == 2   \* at most MaxInflight requests await their response
MaxFragments == 2  \* the server sends at most MaxFragments panel solutions

Pos == 0..MaxPos
Texts == {"a", "b"}

\* sublime.Selection keeps its regions sorted and disjoint
SelValues == ({<<>>} \cup {<<p>> : p \in Pos}) \cup {s \in Pos \X Pos : s[1] < s[2]}

Snapshots == {<<p, p>> : p \in Pos}

Completion == [text : Texts]

\* the lists a server answers with and a caller hands to show(): for every
\* length up to MaxLen and every first text, the list that alternates the texts
OtherText(t) == CHOOSE u \in Texts : u # t

AlternatingList(t, n) ==
    [i \in 1..n |-> [text |-> IF i % 2 = 1 THEN t ELSE OtherText(t)]]

CompletionLists == {AlternatingList(t, n) : t \in Texts, n \in 0..MaxLen}

\* an index a caller may pass to show(): below, inside and above every list
IndexInputs == (0 - MaxLen - 1)..(MaxLen + 1)

None == <<>>
Some(x) == <<x>>
Opt(S) == {None} \cup {Some(x) : x \in S}

\* view.id() of the open views, and the window each of them is in: views 1
\* and 2 share window 1, view 3 is alone in window 2
Views == {1, 2, 3}
Windows == {1, 2}
WindowOf(v) == IF v = 3 THEN 2 ELSE 1

\* window.views(): the views of a window
WindowViews(w) == {v \in Views : WindowOf(v) = w}

\* the "panelId" of a notification: absent, or the string "copilot://<n>" or
\* "<n>", where n is the id of an open view or 0, the id of none
PanelIds == Opt([prefixed : BOOLEAN, id : Views \cup {0}])

\* the payload of a panel solution and of the done notification
PanelSolutions == [panelId : PanelIds, text : Texts]
PanelDones == [panelId : PanelIds]

-----------------------------------------------------------------------------
(* The view settings a handler reads and writes, with a log of the calls   *)
(* it makes to its collaborators: shows / hides count the calls of         *)
(* mdpopups.show_popup / hide_popup, sent lists the snapshots of the       *)
(* requests given to session.send_request_async, raised tells that the     *)
(* handler ended in an exception, req is the index handed to the           *)
(* completion_index setter.                                                *)

Cur ==
    [is_visible |-> is_visible,
     is_waiting_completions |-> is_waiting_completions,
     is_waiting_completion |-> is_waiting_completion,
     completions |-> completions,
     completion_index |-> completion_index,
     popup |-> popup,
     inflight |-> inflight,
     shows |-> 0, hides |-> 0, sent |-> <<>>, raised |-> FALSE, req |-> None]

InflightCount(f) == LET RECURSIVE Sum(_)
                        Sum(S) == IF S = {} THEN 0
                                  ELSE LET x == CHOOSE y \in S : TRUE
                                       IN  f[x] + Sum(S \ {x})
                    IN  Sum(DOMAIN f)

\* Region.to_tuple() of the empty region at point p
ToTuple(p) == <<p, p>>

\* utils.clamp with both bounds given
Clamp(val, min_val, max_val) ==
    IF val < min_val THEN min_val
    ELSE IF val > max_val THEN max_val
    ELSE val

\* the remainder of a division that truncates towards zero, as C's % has it:
\* negative for a negative i
TruncMod(i, n) == IF i >= 0 THEN i % n ELSE 0 - ((0 - i) % n)

\* Python's int % int for a positive divisor: the result is in 0..n-1
PyMod(i, n) == i - n * (CHOOSE k \in (0 - (MaxLen + 2))..(MaxLen + 2) : 0 <= i - n * k /\ i - n * k < n)

\* ViewCompletionManager._tidy_completion_index, completions_cnt = len(self.completions)
TidyCompletionIndex(index, completions_cnt, cyclic) ==
    IF completions_cnt = 0 THEN 0
    ELSE IF cyclic THEN PyMod(index, completions_cnt)
    ELSE Clamp(index, 0, completions_cnt - 1)

\* the completion_index setter
SetCompletionIndex(s, value) ==
    [s EXCEPT !.completion_index =
                  TidyCompletionIndex(value, Len(s.completions), auto_complete_cycle),
              !.req = Some(value)]

\* the completions setter: it stores the list and leaves completion_index alone
SetCompletions(s, value) == [s EXCEPT !.completions = value]

\* ViewCompletionManager.current_completion: self.completions[self.completion_index]
\* raises IndexError when the index is outside -len..len-1 of a non-empty list;
\* a negative index inside that range counts from the end of the list
CurrentCompletionRaises(s) ==
    /\ s.completions # <<>>
    /\ \/ s.completion_index >= Len(s.completions)
       \/ s.completion_index < 0 - Len(s.completions)

CurrentCompletion(s) ==
    IF s.completions = <<>> THEN None
    ELSE IF s.completion_index >= 0 THEN Some(s.completions[s.completion_index + 1])
    ELSE Some(s.completions[Len(s.completions) + s.completion_index + 1])

\* _PopupCompletion(view).show(): the popup holds the current completion and
\* its index
PopupShow(s) ==
    [s EXCEPT !.popup = Some([completion |-> CurrentCompletion(s)[1],
                              index |-> s.completion_index]),
              !.shows = @ + 1]

\* _PopupCompletion.hide(view)
PopupHide(s) == [s EXCEPT !.popup = None, !.hides = @ + 1]

\* hide() that calls hide_popup whatever is_visible says
HideAlwaysRemoves(s) == [PopupHide(s) EXCEPT !.is_visible = FALSE]

\* ViewCompletionManager.hide
Hide(s) ==
    LET s1 == IF s.is_visible THEN PopupHide(s) ELSE s
    IN  [s1 EXCEPT !.is_visible = FALSE]

\* ViewCompletionManager.reset: is_waiting is the setting "is_waiting_completion"
Reset(s) == [s EXCEPT !.is_visible = FALSE, !.is_waiting_completion = FALSE]

\* show() without the comparison of the line with the completion's text
ShowNoLineTest(s, cs, idx) ==
    LET s1 == IF cs # None THEN SetCompletions(s, cs[1]) ELSE s
        s2 == IF idx # None THEN SetCompletionIndex(s1, idx[1]) ELSE s1
    IN  IF CurrentCompletionRaises(s2) THEN [s2 EXCEPT !.raised = TRUE]
        ELSE IF CurrentCompletion(s2) = None THEN s2
        ELSE [PopupShow(s2) EXCEPT !.is_visible = TRUE]

\* ViewCompletionManager.show(completions, completion_index)
Show(s, cs, idx) ==
    LET s1 == IF cs # None THEN SetCompletions(s, cs[1]) ELSE s
        s2 == IF idx # None THEN SetCompletionIndex(s1, idx[1]) ELSE s1
    IN  IF CurrentCompletionRaises(s2) THEN [s2 EXCEPT !.raised = TRUE]
        ELSE IF CurrentCompletion(s2) = None THEN s2
        ELSE IF CurrentCompletion(s2)[1].text = line_text THEN s2
        ELSE [PopupShow(s2) EXCEPT !.is_visible = TRUE]

ShowPreviousCompletion(s) == Show(s, None, Some(s.completion_index - 1))

ShowNextCompletion(s) == Show(s, None, Some(s.completion_index + 1))

\* utils.prepare_completion_request: None, or the payload with the position
PrepareCompletionRequest ==
    IF ~(syntax /\ Len(sel) = 1) THEN None
    ELSE Some([position |-> sel[1]])

\* the test of request_get_completions without the signed-in flag
RequestGuardNoSignIn == session_alive /\ Len(sel) = 1

\* the test of request_get_completions before it builds the payload
RequestGuard == has_signed_in /\ session_alive /\ Len(sel) = 1

RequestPreconditions == RequestGuard /\ PrepareCompletionRequest # None

\* session.send_request_async with the callback's region bound to the snapshot
SendRequest(s, region) ==
    [s EXCEPT !.inflight[region] = @ + 1, !.sent = Append(@, region)]

\* request_get_completions that marks the view waiting before it tests anything
RequestGetCompletionsEagerWaiting(s) ==
    LET s1 == [Hide(s) EXCEPT !.is_waiting_completions = TRUE]
    IN  IF ~RequestGuard THEN s1
        ELSE IF PrepareCompletionRequest = None THEN s1
        ELSE SendRequest(s1, ToTuple(sel[1]))

\* request_get_completions without the hide() it starts with
RequestGetCompletionsNoHide(s) ==
    IF ~RequestGuard THEN s
    ELSE IF PrepareCompletionRequest = None THEN s
    ELSE SendRequest([s EXCEPT !.is_waiting_completions = TRUE], ToTuple(sel[1]))

\* CopilotPlugin.request_get_completions
RequestGetCompletions(s) ==
    LET s1 == Hide(s)
    IN  IF ~RequestGuard THEN s1
        ELSE IF PrepareCompletionRequest = None THEN s1
        ELSE SendRequest([s1 EXCEPT !.is_waiting_completions = TRUE], ToTuple(sel[1]))

\* _on_get_completions without its comparison: no response counts as stale
StaleNever(region) == FALSE

\* a comparison that finds every response stale
StaleAlways(region) == sel # <<>>

\* the comparison of _on_get_completions; view.sel()[0] raises IndexError when
\* the view has no selection
Stale(region) == sel # <<>> /\ ToTuple(sel[1]) # region

\* _on_get_completions that drops a stale response without asking again
OnGetCompletionsNoRetry(s, payload, region) ==
    LET s1 == [s EXCEPT !.is_waiting_completions = FALSE]
    IN  IF sel = <<>> THEN [s1 EXCEPT !.raised = TRUE]
        ELSE IF Stale(region) THEN Hide(s1)
        ELSE IF payload = None \/ payload[1] = <<>> THEN s1
        ELSE Show(s1, Some(payload[1]), Some(0))

\* _on_get_completions without the return after the re-request: the payload of
\* a stale response falls through to show()
OnGetCompletionsNoReturn(s, payload, region) ==
    LET s1 == [s EXCEPT !.is_waiting_completions = FALSE]
        s2 == IF Stale(region) THEN RequestGetCompletions(s1) ELSE s1
    IN  IF sel = <<>> THEN [s1 EXCEPT !.raised = TRUE]
        ELSE IF payload = None \/ payload[1] = <<>> THEN s2
        ELSE Show(s2, Some(payload[1]), Some(0))

\* _on_get_completions that hands the list to show() and leaves the index as
\* it was
OnGetCompletionsKeepIndex(s, payload, region) ==
    LET s1 == [s EXCEPT !.is_waiting_completions = FALSE]
    IN  IF sel = <<>> THEN [s1 EXCEPT !.raised = TRUE]
        ELSE IF Stale(region) THEN RequestGetCompletions(s1)
        ELSE IF payload = None \/ payload[1] = <<>> THEN s1
        ELSE Show(s1, Some(payload[1]), None)

\* _on_get_completions without the test for an empty list: whatever the
\* payload holds goes to show()
OnGetCompletionsNoEmptyCheck(s, payload, region) ==
    LET s1 == [s EXCEPT !.is_waiting_completions = FALSE]
    IN  IF sel = <<>> THEN [s1 EXCEPT !.raised = TRUE]
        ELSE IF Stale(region) THEN RequestGetCompletions(s1)
        ELSE Show(s1, payload, Some(0))

\* CopilotPlugin._on_get_completions(view, payload, region)
OnGetCompletions(s, payload, region) ==
    LET s1 == [s EXCEPT !.is_waiting_completions = FALSE]
    IN  IF sel = <<>> THEN [s1 EXCEPT !.raised = TRUE]
        ELSE IF Stale(region) THEN RequestGetCompletions(s1)
        ELSE IF payload = None \/ payload[1] = <<>> THEN s1
        ELSE Show(s1, Some(payload[1]), Some(0))

-----------------------------------------------------------------------------
(* The notifications of the panel completions.  A handler works on the     *)
(* record of the panel settings of all views and of its calls.             *)

CurPanel ==
    [panel_completions |-> panel_completions,
     is_waiting_panel_completions |-> is_waiting_panel_completions,
     panel_renders |-> panel_renders,
     raised |-> FALSE]

\* utils.remove_prefix(s, "copilot://"), and str.replace("copilot://", "")
\* for a string that holds the prefix at its start only
RemovePrefix(s) == IF s.prefixed THEN [s EXCEPT !.prefixed = FALSE] ELSE s

\* int(s) of a string of digits
ToInt(s) == s.id

\* utils.first(sublime.active_window().views(), lambda view: view.id() == panel_id)
TargetView(panel_id) ==
    LET found == {v \in WindowViews(active_window) : v = panel_id}
    IN  IF found = {} THEN None ELSE Some(CHOOSE v \in found : TRUE)

\* ViewCompletionManager(target_view).show_panel_completions()
ShowPanelCompletions(s, v) == [s EXCEPT !.panel_renders[v] = @ + 1]

\* CopilotPlugin._handle_panel_solution_notification: remove_prefix raises
\* AttributeError for a payload without panelId
HandlePanelSolutionNotification(s, payload) ==
    IF payload.panelId = None THEN [s EXCEPT !.raised = TRUE]
    ELSE LET target_view == TargetView(ToInt(RemovePrefix(payload.panelId[1])))
         IN  IF target_view = None THEN s
             ELSE [s EXCEPT !.panel_completions[target_view[1]] = Append(@, payload)]

\* CopilotPlugin._handle_panel_solution_done_notification
HandlePanelSolutionDoneNotification(s, payload) ==
    LET target_view == IF payload.panelId = None THEN None
                       ELSE TargetView(ToInt(RemovePrefix(payload.panelId[1])))
    IN  IF target_view = None THEN s
        ELSE ShowPanelCompletions(
                 [s EXCEPT !.is_waiting_panel_completions[target_view[1]] = FALSE],
                 target_view[1])

-----------------------------------------------------------------------------
(* The state machine.  last describes the handler that ran last: its name  *)
(* (op), for a response whether the snapshot differed from the cursor      *)
(* (stale), whether the payload held a non-empty list (nonempty), whether  *)
(* the list reached show() (stored) and whether an earlier response had    *)
(* reached it since the cursor last changed (repeat), and the log of the   *)
(* record the handler's operator returned.                                 *)

EmptyInflight == [r \in Snapshots |-> 0]

\* what a step that calls no collaborator leaves in last
Quiet(op) ==
    [op |-> op, stale |-> FALSE, nonempty |-> FALSE, stored |-> FALSE, repeat |-> FALSE,
     shows |-> 0, hides |-> 0, sent |-> <<>>, raised |-> FALSE, req |-> None]

\* the settings of a view the plugin has not touched: every getter falls back
\* to its default, and no request is in flight
FreshView ==
    /\ is_visible = FALSE
    /\ is_waiting_completions = FALSE
    /\ is_waiting_completion = FALSE
    /\ completions = <<>>
    /\ completion_index = 0
    /\ popup = None
    /\ inflight = EmptyInflight
    /\ acted = FALSE
    /\ last = Quiet("init")

\* no panel completions were asked for: window 1 is the active one, no view
\* waits for panel completions or has any
NoPanel ==
    /\ active_window = 1
    /\ panel_completions = [v \in Views |-> <<>>]
    /\ is_waiting_panel_completions = [v \in Views |-> FALSE]
    /\ panel_arrived = [v \in Views |-> <<>>]
    /\ panel_done = [v \in Views |-> FALSE]
    /\ panel_renders = [v \in Views |-> 0]

\* the plugin has started: nobody is signed in yet, the session is alive
Init ==
    /\ has_signed_in = FALSE
    /\ session_alive = TRUE
    /\ sel \in SelValues
    /\ syntax \in BOOLEAN
    /\ auto_complete_cycle = FALSE
    /\ line_text \in Texts
    /\ FreshView
    /\ NoPanel

\* the handler's writes to the view settings and its calls, from the record
\* the handler's operator returns
Commit(s, op) ==
    /\ is_visible' = s.is_visible
    /\ is_waiting_completions' = s.is_waiting_completions
    /\ is_waiting_completion' = s.is_waiting_completion
    /\ completions' = s.completions
    /\ completion_index' = s.completion_index
    /\ popup' = s.popup
    /\ inflight' = s.inflight
    /\ last' = [Quiet(op) EXCEPT !.shows = s.shows, !.hides = s.hides, !.sent = s.sent,
                                 !.raised = s.raised, !.req = s.req]

\* on_check_status: set_has_signed_in(result.get("status") == "OK")
OnCheckStatus(ok) ==
    /\ has_signed_in' = ok
    /\ last' = Quiet("env")
    /\ UNCHANGED <<session_alive, sel, syntax, auto_complete_cycle, line_text,
                   is_visible, is_waiting_completions, is_waiting_completion,
                   completions, completion_index, popup, inflight, acted, panel>>

\* the LSP session of the plugin ends: weaksession() returns None from now on
SessionEnd ==
    /\ session_alive
    /\ session_alive' = FALSE
    /\ last' = Quiet("env")
    /\ UNCHANGED <<has_signed_in, sel, syntax, auto_complete_cycle, line_text,
                   is_visible, is_waiting_completions, is_waiting_completion,
                   completions, completion_index, popup, inflight, acted, panel>>

\* CopilotPlugin.__init__ of a plugin started for another window: it erases
\* is_visible, is_waiting_completions and is_waiting_panel_completions of
\* every view of every window
PluginInit ==
    /\ is_visible' = FALSE
    /\ is_waiting_completions' = FALSE
    /\ is_waiting_panel_completions' = [v \in Views |-> FALSE]
    /\ last' = Quiet("plugin_init")
    /\ UNCHANGED <<env, is_waiting_completion, completions, completion_index,
                   popup, inflight, acted, active_window,
                   panel_completions, panel_arrived, panel_done, panel_renders>>

\* the user moves the cursor or changes the number of selections
SetSel(s) ==
    /\ s # sel
    /\ sel' = s
    /\ acted' = FALSE
    /\ last' = Quiet("env")
    /\ UNCHANGED <<has_signed_in, session_alive, syntax, auto_complete_cycle, line_text,
                   is_visible, is_waiting_completions, is_waiting_completion,
                   completions, completion_index, popup, inflight, panel>>

\* the view gets or loses its syntax
SetSyntax ==
    /\ syntax' = ~syntax
    /\ last' = Quiet("env")
    /\ UNCHANGED <<has_signed_in, session_alive, sel, auto_complete_cycle, line_text,
                   is_visible, is_waiting_completions, is_waiting_completion,
                   completions, completion_index, popup, inflight, acted, panel>>

\* the user changes the setting auto_complete_cycle
SetCycle ==
    /\ auto_complete_cycle' = ~auto_complete_cycle
    /\ last' = Quiet("env")
    /\ UNCHANGED <<has_signed_in, session_alive, sel, syntax, line_text,
                   is_visible, is_waiting_completions, is_waiting_completion,
                   completions, completion_index, popup, inflight, acted, panel>>

\* the user edits the line the completions point at
Edit(t) ==
    /\ t # line_text
    /\ line_text' = t
    /\ last' = Quiet("env")
    /\ UNCHANGED <<has_signed_in, session_alive, sel, syntax, auto_complete_cycle,
                   is_visible, is_waiting_completions, is_waiting_completion,
                   completions, completion_index, popup, inflight, acted, panel>>

\* the same edit of the buffer, told apart from the other steps of the user in
\* last: point and region of the stored completions were computed by
\* preprocess_completions for the buffer as it was before
EditBuffer(t) ==
    /\ t # line_text
    /\ line_text' = t
    /\ last' = Quiet("edit")
    /\ UNCHANGED <<has_signed_in, session_alive, sel, syntax, auto_complete_cycle,
                   is_visible, is_waiting_completions, is_waiting_completion,
                   completions, completion_index, popup, inflight, acted, panel>>

\* the settings of the completion popup, which no panel notification touches
overlay == <<is_visible, is_waiting_completions, is_waiting_completion,
             completions, completion_index, popup, inflight, acted>>

\* the view a panelId names, if it names one
NamedView(panelId) ==
    IF panelId # None /\ panelId[1].id \in Views THEN Some(panelId[1].id) ELSE None

FragmentCount(f) == LET RECURSIVE Sum(_)
                        Sum(S) == IF S = {} THEN 0
                                  ELSE LET x == CHOOSE y \in S : TRUE
                                       IN  Len(f[x]) + Sum(S \ {x})
                    IN  Sum(DOMAIN f)

\* the writes of a panel handler, from the record its operator returns
CommitPanel(s, op) ==
    /\ panel_completions' = s.panel_completions
    /\ is_waiting_panel_completions' = s.is_waiting_panel_completions
    /\ panel_renders' = s.panel_renders
    /\ last' = [Quiet(op) EXCEPT !.raised = s.raised]

\* the server streams one more solution of a panel whose done notification it
\* has not sent yet
PanelSolution(payload) ==
    /\ FragmentCount(panel_arrived) < MaxFragments
    /\ NamedView(payload.panelId) # None => ~panel_done[NamedView(payload.panelId)[1]]
    /\ panel_arrived' = IF NamedView(payload.panelId) = None THEN panel_arrived
                        ELSE [panel_arrived EXCEPT ![NamedView(payload.panelId)[1]] =
                                                      Append(@, payload)]
    /\ CommitPanel(HandlePanelSolutionNotification(CurPanel, payload), "panel_solution")
    /\ UNCHANGED <<env, overlay, active_window, panel_done>>

\* the server sends the one done notification of a panel
PanelDone(payload) ==
    /\ NamedView(payload.panelId) # None => ~panel_done[NamedView(payload.panelId)[1]]
    /\ panel_done' = IF NamedView(payload.panelId) = None THEN panel_done
                     ELSE [panel_done EXCEPT ![NamedView(payload.panelId)[1]] = TRUE]
    /\ CommitPanel(HandlePanelSolutionDoneNotification(CurPanel, payload), "panel_done")
    /\ UNCHANGED <<env, overlay, active_window, panel_arrived>>

\* the user brings another window to the front
SwitchWindow(w) ==
    /\ w # active_window
    /\ active_window' = w
    /\ last' = Quiet("env")
    /\ UNCHANGED <<env, overlay, panel_completions, is_waiting_panel_completions,
                   panel_arrived, panel_done, panel_renders>>

\* request_get_completions(view), called for the user
DoRequest ==
    /\ InflightCount(inflight) < MaxInflight \/ ~RequestPreconditions
    /\ Commit(RequestGetCompletions(Cur), "request")
    /\ UNCHANGED <<env, acted, panel>>

\* the response to a request in flight arrives: _on_get_completions runs with
\* the payload of the server and the snapshot bound at dispatch
DoResponse(region, payload) ==
    /\ inflight[region] > 0
    /\ LET s == OnGetCompletions([Cur EXCEPT !.inflight[region] = @ - 1], payload, region)
           nonempty == payload # None /\ payload[1] # <<>>
           stored == sel # <<>> /\ ~Stale(region) /\ nonempty
       IN  /\ is_visible' = s.is_visible
           /\ is_waiting_completions' = s.is_waiting_completions
           /\ is_waiting_completion' = s.is_waiting_completion
           /\ completions' = s.completions
           /\ completion_index' = s.completion_index
           /\ popup' = s.popup
           /\ inflight' = s.inflight
           /\ acted' = (acted \/ stored)
           /\ last' = [op |-> "response", stale |-> Stale(region), nonempty |-> nonempty,
                       stored |-> stored, repeat |-> acted /\ stored,
                       shows |-> s.shows, hides |-> s.hides, sent |-> s.sent,
                       raised |-> s.raised, req |-> s.req]
    /\ UNCHANGED <<env, panel>>

DoShow(cs, idx) ==
    /\ Commit(Show(Cur, cs, idx), "show")
    /\ UNCHANGED <<env, acted, panel>>

DoShowNext ==
    /\ Commit(ShowNextCompletion(Cur), "next")
    /\ UNCHANGED <<env, acted, panel>>

DoShowPrevious ==
    /\ Commit(ShowPreviousCompletion(Cur), "previous")
    /\ UNCHANGED <<env, acted, panel>>

DoHide ==
    /\ Commit(Hide(Cur), "hide")
    /\ UNCHANGED <<env, acted, panel>>

DoReset ==
    /\ Commit(Reset(Cur), "reset")
    /\ UNCHANGED <<env, acted, panel>>

\* the controller of a view: the sign-in flag, the session, the selections,
\* the syntax and the text of the view, the requests and their responses
Next ==
    \/ \E ok \in BOOLEAN : OnCheckStatus(ok)
    \/ SessionEnd
    \/ \E s \in SelValues : SetSel(s)
    \/ SetSyntax
    \/ \E t \in Texts : Edit(t)
    \/ DoRequest
    \/ \E region \in Snapshots, payload \in Opt(CompletionLists) : DoResponse(region, payload)
    \/ DoHide

Spec == Init /\ [][Next]_vars

\* a view of a signed-in user with one cursor and a known syntax: the requests
\* and their responses together with the commands of the popup
InitOverlay ==
    /\ has_signed_in = TRUE
    /\ session_alive = TRUE
    /\ sel \in {<<p>> : p \in Pos}
    /\ syntax = TRUE
    /\ auto_complete_cycle = FALSE
    /\ line_text \in Texts
    /\ FreshView
    /\ NoPanel

NextOverlay ==
    \/ \E p \in Pos : SetSel(<<p>>)
    \/ \E t \in Texts : Edit(t)
    \/ PluginInit
    \/ DoRequest
    \/ \E region \in Snapshots, payload \in Opt(CompletionLists) : DoResponse(region, payload)
    \/ DoShowNext
    \/ DoShowPrevious
    \/ DoHide
    \/ DoReset

SpecOverlay == InitOverlay /\ [][NextOverlay]_vars

\* the session of a view on its own: every call of show() a caller can make
InitSession ==
    /\ has_signed_in = FALSE
    /\ session_alive = TRUE
    /\ sel \in SelValues
    /\ syntax \in BOOLEAN
    /\ auto_complete_cycle \in BOOLEAN
    /\ line_text \in Texts
    /\ FreshView
    /\ NoPanel

NextSession ==
    \/ \E cs \in Opt(CompletionLists), idx \in Opt(IndexInputs) : DoShow(cs, idx)
    \/ DoShowNext
    \/ DoShowPrevious
    \/ DoHide
    \/ DoReset
    \/ SetCycle
    \/ \E t \in Texts : Edit(t)

SpecSession == InitSession /\ [][NextSession]_vars

\* a view of a signed-in user whose cursor rests: the user asks for
\* completions, edits the buffer and walks through the completions stored
NextBrowse ==
    \/ \E t \in Texts : EditBuffer(t)
    \/ SetCycle
    \/ DoRequest
    \/ \E region \in Snapshots, payload \in Opt(CompletionLists) : DoResponse(region, payload)
    \/ DoShowNext
    \/ DoShowPrevious

SpecBrowse == InitOverlay /\ [][NextBrowse]_vars

\* a view that keeps meeting the preconditions of a request: the user moves
\* the cursor and asks for completions, and the server answers every request
\* in flight, whatever its snapshot, after a finite time
NextLive ==
    \/ \E p \in Pos : SetSel(<<p>>)
    \/ DoRequest
    \/ \E region \in Snapshots, payload \in Opt(CompletionLists) : DoResponse(region, payload)

SpecLive ==
    /\ InitOverlay
    /\ [][NextLive]_vars
    /\ \A region \in Snapshots :
         WF_vars(\E payload \in Opt(CompletionLists) : DoResponse(region, payload))

\* panel completions were asked for in every view: each view waits, none has
\* a solution yet, and either window may be the active one
InitPanel ==
    /\ has_signed_in = TRUE
    /\ session_alive = TRUE
    /\ sel = <<0>>
    /\ syntax = TRUE
    /\ auto_complete_cycle = FALSE
    /\ line_text = "a"
    /\ FreshView
    /\ active_window \in Windows
    /\ panel_completions = [v \in Views |-> <<>>]
    /\ is_waiting_panel_completions = [v \in Views |-> TRUE]
    /\ panel_arrived = [v \in Views |-> <<>>]
    /\ panel_done = [v \in Views |-> FALSE]
    /\ panel_renders = [v \in Views |-> 0]

NextPanel ==
    \/ \E payload \in PanelSolutions : PanelSolution(payload)
    \/ \E payload \in PanelDones : PanelDone(payload)
    \/ \E w \in Windows : SwitchWindow(w)

SpecPanel == InitPanel /\ [][NextPanel]_vars

-----------------------------------------------------------------------------
(* The claims *)

\* C1: a response whose snapshot differs from the view's current primary
\* selection never has its completions stored or rendered: the handler leaves
\* completions and completion_index as they were, calls show_popup not at all
\* and does not leave is_visible true.
C1_StaleResponseNeverStored ==
    [][(last'.op = "response" /\ last'.stale)
         => /\ completions' = completions
            /\ completion_index' = completion_index
            /\ last'.shows = 0
            /\ popup' \in {popup, None}
            /\ ~is_visible']_vars

\* a stale response with a non-empty list of completions has been handled
C1_Witness ==
    last.op = "response" /\ last.stale /\ last.nonempty

\* the preconditions of request_get_completions, as the specification lists
\* them: signed in, a live session, exactly one selection, a known syntax
PreconditionsHold == has_signed_in /\ session_alive /\ Len(sel) = 1 /\ syntax

\* the bag of requests in flight after one more with the snapshot r
OneMore(f, r) == [f EXCEPT ![r] = @ + 1]

\* the bag of requests in flight after the response to one with the snapshot r
OneLess(f, r) == [f EXCEPT ![r] = @ - 1]

\* C2 as stated: every stale response makes the handler dispatch exactly one
\* new request, and that request carries the cursor at the response's arrival.
C2_StaleAlwaysReRequests ==
    [][(last'.op = "response" /\ last'.stale)
         => last'.sent = <<ToTuple(sel[1])>>]_vars

\* C2 amended: a stale response makes the handler dispatch exactly one new
\* request, carrying the cursor at the response's arrival, when the
\* preconditions of request_get_completions hold at that moment, and no
\* request at all when one of them fails.
C2_StaleReRequestsWhenAllowed ==
    [][(last'.op = "response" /\ last'.stale)
         => \E r \in Snapshots :
              /\ inflight[r] > 0
              /\ r # ToTuple(sel[1])
              /\ IF PreconditionsHold
                 THEN /\ last'.sent = <<ToTuple(sel[1])>>
                      /\ inflight' = OneMore(OneLess(inflight, r), ToTuple(sel[1]))
                 ELSE /\ last'.sent = <<>>
                      /\ inflight' = OneLess(inflight, r)]_vars

\* a stale response arrived and one new request left with the cursor of that
\* moment as its snapshot
C2_Witness ==
    /\ last.op = "response" /\ last.stale
    /\ last.sent = <<ToTuple(sel[1])>>
    /\ inflight[ToTuple(sel[1])] > 0

\* C3: while nobody is signed in no handler dispatches a completion request:
\* no call of send_request_async is made and no request joins those in flight.
C3_NoRequestWhileSignedOut ==
    [][~has_signed_in
         => /\ last'.sent = <<>>
            /\ \A r \in Snapshots : inflight'[r] <= inflight[r]]_vars

\* a stale response arrived while nobody was signed in any more
C3_Witness ==
    ~has_signed_in /\ last.op = "response" /\ last.stale

\* C4 as stated: the stored index is inside the stored list, and 0 when the
\* list is empty, after every operation of the session.
C4_IndexInRange ==
    IF completions = <<>> THEN completion_index = 0
    ELSE 0 <= completion_index /\ completion_index < Len(completions)

\* C5 as stated: a visible overlay means a non-empty list whose current entry
\* is the one the overlay was rendered from.
C5_VisibleShowsCurrent ==
    is_visible
      => /\ completions # <<>>
         /\ completion_index < Len(completions)
         /\ popup = <<[completion |-> completions[completion_index + 1],
                       index |-> completion_index]>>

\* the index the specification's selectIndex(i) yields for a list of n entries
ExpectedIndex(i, n, cyclic) ==
    IF n = 0 THEN 0
    ELSE IF cyclic
         THEN CHOOSE r \in 0..(n - 1) : \E k \in (0 - (MaxLen + 2))..(MaxLen + 2) : i = r + k * n
         ELSE IF i < 0 THEN 0 ELSE IF i > n - 1 THEN n - 1 ELSE i

\* C6: the completion_index setter, given i for a list of N entries, stores 0
\* when N = 0, i mod N (non-negative) when cyclic and clamp(i, 0, N-1)
\* otherwise; so next at the last index stays at N-1 or wraps to 0, and
\* previous at index 0 stays at 0 or wraps to N-1.
C6_SetIndexClampsOrWraps ==
    LET n == Len(completions)
    IN  /\ last.req # None
             => completion_index = ExpectedIndex(last.req[1], n, auto_complete_cycle)
        /\ (last.op = "next" /\ n > 0 /\ last.req = <<n>>)
             => completion_index = IF auto_complete_cycle THEN 0 ELSE n - 1
        /\ (last.op = "previous" /\ n > 0 /\ last.req = <<0 - 1>>)
             => completion_index = IF auto_complete_cycle THEN n - 1 ELSE 0

\* previous at index 0 of a list of two or more with the cyclic setting on
\* has wrapped to the last index
C6_Witness ==
    /\ last.op = "previous" /\ last.req = <<0 - 1>>
    /\ auto_complete_cycle
    /\ Len(completions) >= 2
    /\ completion_index = Len(completions) - 1

\* C7 as stated: request_get_completions with a failing precondition changes
\* nothing: not is_visible, the overlay, the waiting flag, the completions,
\* the index or the requests in flight.
C7_FailedRequestIsNoOp ==
    [][(last'.op = "request" /\ ~PreconditionsHold)
         => UNCHANGED <<is_visible, popup, is_waiting_completions, completions,
                        completion_index, inflight>>]_vars

\* C7 amended: request_get_completions with a failing precondition leaves the
\* waiting flag, the completions, the index and the requests in flight
\* unchanged and dispatches nothing, but it has already called hide(): is_visible
\* is false afterwards and a visible overlay has been removed.
C7_FailedRequestOnlyHides ==
    [][(last'.op = "request" /\ ~PreconditionsHold)
         => /\ UNCHANGED <<is_waiting_completions, completions, completion_index, inflight>>
            /\ last'.sent = <<>>
            /\ last'.shows = 0
            /\ ~is_visible'
            /\ popup' = IF is_visible THEN None ELSE popup
            /\ last'.hides = IF is_visible THEN 1 ELSE 0]_vars

\* request_get_completions ran with a failing precondition and removed the
\* overlay that was visible
C7_Witness ==
    last.op = "request" /\ ~PreconditionsHold /\ last.hides = 1

\* C8 as stated: after reset() is_visible is false and so is the waiting flag
\* that request_get_completions sets and the response handler clears.
C8_ResetClearsWaiting ==
    [][last'.op = "reset" => (~is_visible' /\ ~is_waiting_completions')]_vars

\* C9 as stated: between two changes of the cursor at most one response has
\* its completions stored and shown.
C9_OneResponsePerCursorState ==
    [][(last'.op = "response" /\ last'.stored) => ~acted]_vars

\* C9 amended: a response is acted upon only when its snapshot is the cursor
\* at its arrival, and each response acted upon answers one request in flight
\* with that snapshot; several requests in flight with the same snapshot each
\* have their response acted upon, also without a cursor change in between.
C9_EachFreshResponseActedUpon ==
    [][(last'.op = "response" /\ last'.nonempty /\ sel # <<>>)
         => IF \E r \in Snapshots : r = ToTuple(sel[1]) /\ inflight' = OneLess(inflight, r)
            THEN /\ last'.stored
                 /\ inflight[ToTuple(sel[1])] > 0
                 /\ completions' # <<>>
                 /\ completion_index' = 0
                 /\ acted'
            ELSE /\ ~last'.stored
                 /\ completions' = completions
                 /\ acted' = acted]_vars

\* a second response was acted upon with no cursor change since the first
C9_Witness ==
    last.op = "response" /\ last.stored /\ last.repeat

\* C10 as stated: the waiting flag and is_visible are never both true.
C10_NeverWaitingAndVisible ==
    ~(is_waiting_completions /\ is_visible)

\* C10 amended: request_get_completions and the response handler never leave
\* the waiting flag and is_visible both true: a dispatch hides the overlay
\* before it sets the flag, and the response handler clears the flag before it
\* shows.  show, show_next_completion and show_previous_completion do not read
\* the flag and make the overlay visible while it is set.
C10_ControllerNeverLeavesBoth ==
    last.op \in {"request", "response"} => ~(is_waiting_completions /\ is_visible)

\* a request was dispatched from a view whose overlay was visible: the overlay
\* is removed and the view waits
C10_Witness ==
    /\ last.op = "request" /\ last.sent # <<>> /\ last.hides = 1
    /\ is_waiting_completions /\ ~is_visible

\* C11: a response with a non-empty list whose snapshot is the view's current
\* primary selection leaves completions equal to the payload's list in its
\* order, completion_index 0, the first entry as the current completion and
\* the waiting flag false; unless the text of the line equals the text of that
\* entry, show_popup has been called once for it and is_visible is true.
C11_FreshResponseStoredAndShown ==
    [][(last'.op = "response" /\ last'.nonempty /\ sel # <<>> /\ ~last'.stale)
         => \A payload \in CompletionLists \ {<<>>} :
              DoResponse(ToTuple(sel[1]), Some(payload))
                => /\ completions' = payload
                   /\ completion_index' = 0
                   /\ ~is_waiting_completions'
                   /\ ~last'.raised
                   /\ payload[1].text # line_text
                        => /\ last'.shows = 1
                           /\ is_visible'
                           /\ popup' = Some([completion |-> payload[1], index |-> 0])]_vars

\* a response for the current cursor with a list of two entries has been
\* stored and its first entry rendered
C11_Witness ==
    /\ last.op = "response" /\ last.stored /\ last.shows = 1
    /\ Len(completions) = 2 /\ completion_index = 0
    /\ is_visible /\ ~is_waiting_completions
    /\ popup = Some([completion |-> completions[1], index |-> 0])

\* C12: a response for the current cursor with an empty or absent list of
\* completions changes nothing but the waiting flag, which becomes false:
\* completions, completion_index, is_visible and the overlay stay as they
\* were, show_popup and hide_popup are not called and no request is sent.
C12_EmptyResponseOnlyClearsWaiting ==
    [][(last'.op = "response" /\ ~last'.nonempty /\ sel # <<>> /\ ~last'.stale)
         => /\ ~is_waiting_completions'
            /\ UNCHANGED <<completions, completion_index, is_visible, popup,
                           is_waiting_completion>>
            /\ last'.shows = 0 /\ last'.hides = 0
            /\ last'.sent = <<>>
            /\ ~last'.raised
            /\ inflight' = OneLess(inflight, ToTuple(sel[1]))]_vars

\* a response without completions arrived for the current cursor while an
\* overlay was visible, and the overlay is still there
C12_Witness ==
    /\ last.op = "response" /\ ~last.nonempty /\ ~last.stale /\ sel # <<>>
    /\ is_visible /\ popup # None /\ completions # <<>>

\* C13 as stated: no handler ends in an exception: a response that arrives
\* while the view has no selection, like a payload that lacks a field, is a
\* silent no-op.
C13_NoHandlerRaises ==
    ~last.raised

\* the entry i of the list cs exists and its text is the text of the line
LineIsCompletion(cs, i) ==
    cs # <<>> /\ i \in 0..(Len(cs) - 1) /\ cs[i + 1].text = line_text

\* C16: when show() finds the text of the line equal to the text of the
\* current completion it does not call show_popup and leaves is_visible and
\* the overlay as they were; show() called again in that state changes
\* nothing at all.
C16_ShowOfTypedLineKeepsVisible ==
    [][/\ (last'.op \in {"show", "next", "previous"}
            /\ LineIsCompletion(completions', completion_index'))
          => /\ last'.shows = 0 /\ last'.hides = 0
             /\ ~last'.raised
             /\ is_visible' = is_visible
             /\ popup' = popup
       /\ (DoShow(None, None) /\ LineIsCompletion(completions, completion_index))
          => UNCHANGED <<is_visible, is_waiting_completions, is_waiting_completion,
                         completions, completion_index, popup, inflight>>]_vars

\* show() found the line equal to the current completion while the overlay of
\* another text was visible: is_visible is still true
C16_Witness ==
    /\ last.op = "show" /\ last.shows = 0
    /\ LineIsCompletion(completions, completion_index)
    /\ is_visible
    /\ popup # None /\ popup[1].completion.text # line_text

\* C17: hide() calls hide_popup only when is_visible was true and always
\* leaves is_visible false; a hide() that follows a hide() changes no setting
\* and calls nothing.
C17_HideIdempotent ==
    [][last'.op = "hide"
         => /\ ~is_visible'
            /\ last'.hides = (IF is_visible THEN 1 ELSE 0)
            /\ last'.shows = 0
            /\ popup' = (IF is_visible THEN None ELSE popup)
            /\ UNCHANGED <<is_waiting_completions, is_waiting_completion,
                           completions, completion_index, inflight>>
            /\ last.op = "hide"
                 => /\ last'.hides = 0
                    /\ UNCHANGED <<is_visible, popup>>]_vars

\* hide() has removed a visible overlay and kept the completions
C17_Witness ==
    /\ last.op = "hide" /\ last.hides = 1
    /\ ~is_visible /\ popup = None /\ completions # <<>>

\* C20 as stated: the waiting flag is true exactly when a request of the view
\* awaits its response, also when several requests overlap.
C20_WaitingIffInFlight ==
    is_waiting_completions <=> InflightCount(inflight) > 0

\* C18 as stated, for the operation that follows an edit of the buffer:
\* show_next_completion and show_previous_completion do not render a completion
\* of the list that was stored, with its point and region, before the edit.
C18_NoRenderOfRegionsFromBeforeEdit ==
    [][(last.op = "edit" /\ completions # <<>>)
         => ~(/\ last'.op \in {"next", "previous"}
              /\ completions' = completions
              /\ last'.shows = 1)]_vars

\* C19: when every request in flight gets its response, the preconditions of
\* a request keep holding and the user at some time stops moving the cursor
\* and asking for completions, so that from then on the responses are the
\* only steps, the re-requests end: from some time on no request is in
\* flight and the waiting flag is false.
C19_ReRequestLoopTerminates ==
    <>[](last.op = "response")
      => <>[](InflightCount(inflight) = 0 /\ ~is_waiting_completions)

\* the last response has arrived: nothing is in flight, the view does not
\* wait and the completions of a response are stored
C19_Witness ==
    /\ last.op = "response" /\ last.stored
    /\ InflightCount(inflight) = 0 /\ ~is_waiting_completions

\* C14 as stated: once the done notification of a view's panel has arrived,
\* after the solutions the server sent for that panel, panel_completions of
\* the view holds exactly those solutions in the order of their arrival and
\* show_panel_completions has been called once for the view; it is not called
\* before the done notification.
C14_PanelAccumulatesThenRendersOnce ==
    \A v \in Views :
        IF panel_done[v]
        THEN panel_completions[v] = panel_arrived[v] /\ panel_renders[v] = 1
        ELSE panel_renders[v] = 0

\* C15 as stated: a done notification whose panelId names an open view, of
\* whichever window, clears is_waiting_panel_completions of that view and
\* calls show_panel_completions for it, and leaves the panel settings of
\* every other view as they were.
C15_DoneClearsWaitingOfNamedView ==
    [][\A v \in Views :
         (last'.op = "panel_done" /\ ~panel_done[v] /\ panel_done'[v])
           => /\ ~is_waiting_panel_completions'[v]
              /\ panel_renders'[v] = panel_renders[v] + 1
              /\ panel_completions'[v] = panel_completions[v]
              /\ \A u \in Views \ {v} :
                   /\ is_waiting_panel_completions'[u] = is_waiting_panel_completions[u]
                   /\ panel_renders'[u] = panel_renders[u]
                   /\ panel_completions'[u] = panel_completions[u]]_vars

\* C21 as stated: whenever the overlay of the plugin is on screen for the
\* view, is_visible is true; so after hide() has returned no overlay is on
\* screen, whatever show, reset, start of the plugin and hide came before.
C21_OverlayOnScreenIsVisible ==
    /\ popup # None => is_visible
    /\ last.op = "hide" => popup = None

\* C22 as stated, for the response that follows an edit of the buffer: every
\* request in flight was dispatched before the edit, so the buffer changed
\* between the dispatch and the arrival, and the completions of the response
\* are neither stored nor rendered.
C22_NoShowAfterEditInFlight ==
    [][(last.op = "edit" /\ last'.op = "response")
         => (~last'.stored /\ last'.shows = 0)]_vars

=============================================================================
